---------------------------- MODULE Spec2Model ----------------------------
(***************************************************************************)
(* Verification model of the elliptic-curve math kernel: modular           *)
(* arithmetic over Field / FieldElement, the extended Euclidean algorithm, *)
(* Tonelli-Shanks, and the Weierstrass curve group law, scalar             *)
(* multiplication, order finding and Weil pairing.                         *)
(*                                                                         *)
(* The library is single threaded and purely functional, so the state of   *)
(* the program is the call in flight: `pc` is the position (which          *)
(* operation has completed, "start" before any), `args` the arguments the  *)
(* caller built and `ret` the value the operation returned.  `loc` holds   *)
(* the local variables of a function that is followed step by step         *)
(* (weilpairing and the test driving it); it is None in the other runs.    *)
(***************************************************************************)
EXTENDS Integers, Sequences, FiniteSets, TLC

VARIABLES pc, args, ret, loc

vars == <<pc, args, ret, loc>>

(***************************************************************************)
(* Bounds of the model.                                                    *)
(***************************************************************************)
MaxOrder == 9        \* field orders 2..MaxOrder in the field-arithmetic runs
MaxRaw == 20         \* raw integers handed to Field::get
MaxExp == 5          \* exponents handed to ^
MaxBytes == 2        \* length of the byte strings handed to Field::sample
MaxArg == 14         \* arguments of gcd / u_xgcd
MaxPrime == 101      \* field orders of the Tonelli-Shanks runs are the odd primes up to it
MaxCurvePrime == 7   \* field orders of the curve runs are the odd primes up to it
MaxScalar == 12      \* scalars handed to double_and_add / montgomery_ladder
MaxScalarA == 7      \* scalars a of the bilinearity test are 1..MaxScalarA
MaxRejections == 101 \* the re-sampling runs follow the loop of weilpairing for this many re-draws
MaxResample == 1     \* times weilpairing draws a new S after rejecting one
MaxGenPrime == 1000  \* field orders of the generator runs are the odd primes up to it
MaxLadderN == 6      \* the scalars handed to MontgomeryCurve::ladder are 1..MaxLadderN
MaxLadderK == 40     \* the scalars of the ladder-scalar runs are 0..MaxLadderK
MaxLadderOrder == 13 \* the point orders of the ladder-scalar runs are 1..MaxLadderOrder
MaxMixPrime == 11    \* the mixed-field runs take two different odd primes up to MaxMixPrime
MaxMillerM == 8      \* the m handed to miller is 1..MaxMillerM
MaxBitValue == 20    \* u32 values of the bit-iterator runs are 0..MaxBitValue and two wide ones
MaxSampleByte == 38  \* the last byte of a random draw is 0..MaxSampleByte (or one of three more)

(***************************************************************************)
(* A panic (failed assertion, BigUint underflow) unwinds through every     *)
(* caller.  It is modelled as the value Panic, which every operation       *)
(* propagates.                                                             *)
(***************************************************************************)
Panic == -1

None == << >>
Some(v) == <<v>>

(***************************************************************************)
(* BigUint primitives.                                                     *)
(***************************************************************************)
\* BigUint `a - b`: panics on underflow.
USub(a, b) == IF a < 0 \/ b < 0 \/ a < b THEN Panic ELSE a - b

RECURSIVE BitXorNat(_, _)
\* BigUint `a ^ b` (bitwise exclusive or).
BitXorNat(a, b) ==
  IF a = 0 THEN b
  ELSE IF b = 0 THEN a
  ELSE 2 * BitXorNat(a \div 2, b \div 2) + (((a % 2) + (b % 2)) % 2)

\* BigUint / u32 `v >> n` for n up to 32, in two halves so that no power exceeds 2^16
Shr(v, n) == (v \div (2 ^ (n \div 2))) \div (2 ^ (n - (n \div 2)))

RECURSIVE ModPowLoop(_, _, _, _)
ModPowLoop(base, e, m, acc) ==
  IF e = 0 THEN acc
  ELSE ModPowLoop((base * base) % m, e \div 2, m,
                  IF e % 2 = 1 THEN (acc * base) % m ELSE acc)

\* BigUint::modpow(exponent, modulus)
modpow(base, e, m) ==
  IF base < 0 \/ e < 0 \/ m <= 0 THEN Panic
  ELSE ModPowLoop(base % m, e, m, 1 % m)

(***************************************************************************)
(* utils::gcd                                                              *)
(***************************************************************************)
RECURSIVE gcd(_, _)
gcd(a, b) == IF b # 0 THEN gcd(b, a % b) ELSE a

(***************************************************************************)
(* utils::xgcd::u_xgcd                                                     *)
(***************************************************************************)
RECURSIVE u_xgcd_loop(_, _, _, _)
\* the `while !a.1.is_zero()` loop with its locals xy0, xy1, a, q
u_xgcd_loop(xy0, xy1, a, q) ==
  IF a[2] # 0
  THEN LET x2 == xy0[1] - q * xy1[1]
           y2 == xy0[2] - q * xy1[2]
           q1 == a[1] \div a[2]
       IN  u_xgcd_loop(xy1, <<x2, y2>>, <<a[2], a[1] - q1 * a[2]>>, q1)
  ELSE <<xy1[1], xy1[2], a[1]>>

\* mutant: the two coefficient pairs start swapped
u_xgcd_SwappedInit(a, b) == u_xgcd_loop(<<1, 0>>, <<0, 1>>, <<a, b>>, 0)

u_xgcd(a, b) == u_xgcd_loop(<<0, 1>>, <<1, 0>>, <<a, b>>, 0)

(***************************************************************************)
(* Field: the methods take the field's order `f` and BigUint values.       *)
(***************************************************************************)
neg_mod(f, a) == IF a = 0 THEN a ELSE USub(f, a)

sub_mod(f, a, b) ==
  IF a < 0 \/ b < 0 THEN Panic
  ELSE IF a > b THEN a - b
  ELSE IF a = b THEN 0
  ELSE neg_mod(f, b - a)

\* mutant: the sum is not reduced
add_mod_NoWrap(f, a, b) == IF a < 0 \/ b < 0 THEN Panic ELSE a + b

add_mod(f, a, b) == sub_mod(f, a, USub(f, b))

RECURSIVE mul_mod_loop(_, _, _, _)
\* the `while b > big_zero` loop with its locals res, a, b
mul_mod_loop(f, res, a, b) ==
  IF res < 0 \/ a < 0 THEN Panic
  ELSE IF b > 0
  THEN mul_mod_loop(f,
                    IF b % 2 = 1 THEN add_mod(f, res, a) ELSE res,
                    add_mod(f, a, a),
                    b \div 2)
  ELSE res

mul_mod(f, a, b) == IF a < 0 \/ b < 0 THEN Panic ELSE mul_mod_loop(f, 0, a, b)

\* mutant: a negative Bezout coefficient is returned by magnitude
inv_NoNegate(f, a) ==
  IF a < 0 THEN Panic
  ELSE LET x == u_xgcd(a, f)[1]
       IN  IF x > 0 THEN x
           ELSE IF x = 0 THEN 0
           ELSE -x

inv(f, a) ==
  IF a < 0 THEN Panic
  ELSE LET x == u_xgcd(a, f)[1]
       IN  IF x > 0 THEN x
           ELSE IF x = 0 THEN 0
           ELSE neg_mod(f, -x)

(***************************************************************************)
(* FieldElement { field, value } and its operators.                        *)
(***************************************************************************)
FieldElement(f, v) == [field |-> f, value |-> v]

Get(f, v) == FieldElement(f, v % f)
Zero(f) == FieldElement(f, 0)
One(f) == FieldElement(f, 1)

RECURSIVE SampleFold(_, _)
\* bytes.iter().fold(0, |acc, b| (acc << 8) ^ b)
SampleFold(acc, bytes) ==
  IF bytes = << >> THEN acc
  ELSE SampleFold(BitXorNat(acc * 256, Head(bytes)), Tail(bytes))

Sample(f, bytes) == FieldElement(f, SampleFold(0, bytes) % f)

Add(x, y) == FieldElement(x.field, add_mod(x.field, x.value, y.value))
Sub(x, y) == FieldElement(x.field, sub_mod(x.field, x.value, y.value))
Mul(x, y) == FieldElement(x.field, mul_mod(x.field, x.value, y.value))
Neg(x) == FieldElement(x.field, IF x.value < 0 THEN Panic ELSE neg_mod(x.field, x.value))
Inverse(x) == FieldElement(x.field, inv(x.field, x.value))

\* assert_ne!(rhs.value, 0, "divide by zero"); self * rhs.inverse()
Div(x, y) ==
  IF y.value = 0 \/ y.value < 0 \/ x.value < 0
  THEN FieldElement(x.field, Panic)
  ELSE Mul(x, Inverse(y))

\* BitXor<BigUint>: exponentiation
Pow(x, e) == FieldElement(x.field, modpow(x.value, e, x.field))

IsPanicFE(x) == x.value < 0

RECURSIVE gen_strip(_, _)
\* Field::generator: while (n % i).is_zero() { n /= i }
gen_strip(n, i) == IF n % i = 0 THEN gen_strip(n \div i, i) ELSE n

RECURSIVE gen_factors(_, _, _)
\* Field::generator: while i * i <= n { ... i += 1 }; if n > 1 { fact.push(n) }
gen_factors(n, i, fact) ==
  IF i * i <= n
  THEN IF n % i = 0
       THEN gen_factors(gen_strip(n, i), i + 1, Append(fact, i))
       ELSE gen_factors(n, i + 1, fact)
  ELSE IF n > 1 THEN Append(fact, n) ELSE fact

\* the inner `for f in &fact`: no power phi / f of res is one
gen_ok(res, phi, fact) ==
  \A k \in 1..Len(fact) : Pow(res, phi \div fact[k]).value # 1

RECURSIVE gen_search(_, _, _)
\* Field::generator: while res.value <= self.order { ... res.value += 1 }
gen_search(res, phi, fact) ==
  IF res.value <= res.field
  THEN IF gen_ok(res, phi, fact) THEN Some(res)
       ELSE gen_search([res EXCEPT !.value = @ + 1], phi, fact)
  ELSE None

\* mutant: the candidate is not tested against the factors of phi
generator_NoFactorCheck(f) == Some(Get(f, 2))

generator(f) ==
  IF USub(f, 1) = Panic THEN Some(FieldElement(f, Panic))
  ELSE gen_search(Get(f, 2), USub(f, 1), gen_factors(USub(f, 1), 2, << >>))

(***************************************************************************)
(* utils::s_tonelli::tonelli_shanks                                        *)
(***************************************************************************)
RECURSIVE ts_factor(_, _)
\* while (q & 1).is_zero() { ss += 1; q >>= 1 }
ts_factor(q, ss) ==
  IF q % 2 = 0 THEN ts_factor(q \div 2, ss + 1) ELSE <<q, ss>>

RECURSIVE ts_find_z(_, _, _)
\* while z ^ ((p - 1) / 2) != one_inv { z = z + one }
ts_find_z(z, one, one_inv) ==
  IF Pow(z, (z.field - 1) \div 2) # one_inv
  THEN ts_find_z(Add(z, one), one, one_inv)
  ELSE z

\* mutant: the scan for i stops at once, whatever zz is
ts_find_i_NoScan(zz, i, m, one) == i

RECURSIVE ts_find_i(_, _, _, _)
\* while zz != one && i < (m - 1) { zz = zz * zz; i += 1 }; yields i, Panic when m - 1 underflows
ts_find_i(zz, i, m, one) ==
  IF zz # one
  THEN IF USub(m, 1) = Panic THEN Panic
       ELSE IF i < m - 1 THEN ts_find_i(Mul(zz, zz), i + 1, m, one)
       ELSE i
  ELSE i

RECURSIVE ts_square(_, _)
\* while e > 0 { b = b * b; e -= 1 }
ts_square(b, e) == IF e > 0 THEN ts_square(Mul(b, b), e - 1) ELSE b

RECURSIVE ts_loop(_, _, _, _, _)
\* the main `loop` with its locals c, r, t, m
ts_loop(c, r, t, m, one) ==
  IF t = one THEN Some(<<r, Neg(r)>>)
  ELSE LET i == ts_find_i(t, 0, m, one)
           e == IF i = Panic THEN Panic ELSE USub(USub(m, i), 1)
       IN  IF e = Panic
           THEN Some(<<FieldElement(r.field, Panic), FieldElement(r.field, Panic)>>)
           ELSE LET b == ts_square(c, e)
                    c1 == Mul(b, b)
                IN  ts_loop(c1, Mul(r, b), Mul(t, c1), i, one)

\* mutant: the closed form for p = 3 (mod 4) uses (p - 1) / 4
tonelli_shanks_MinusOne(x) ==
  IF IsPanicFE(x) THEN Some(<<x, x>>)
  ELSE
  LET one == One(x.field)
      one_inv == Neg(one)
      p == x.field
  IN  IF Pow(x, (p - 1) \div 2) # one THEN None
      ELSE LET qs == ts_factor(p - 1, 0)
               q == qs[1]
               ss == qs[2]
           IN  IF ss = 1
               THEN LET r1 == Pow(x, (p - 1) \div 4) IN Some(<<r1, Neg(r1)>>)
               ELSE LET z == ts_find_z(FieldElement(p, 2), one, one_inv)
                    IN  ts_loop(Pow(z, q), Pow(x, (q + 1) \div 2), Pow(x, q), ss, one)

tonelli_shanks(x) ==
  IF IsPanicFE(x) THEN Some(<<x, x>>)
  ELSE
  LET one == One(x.field)
      one_inv == Neg(one)
      p == x.field
  IN  IF Pow(x, (p - 1) \div 2) # one THEN None
      ELSE LET qs == ts_factor(p - 1, 0)
               q == qs[1]
               ss == qs[2]
           IN  IF ss = 1
               THEN LET r1 == Pow(x, (p + 1) \div 4) IN Some(<<r1, Neg(r1)>>)
               ELSE LET z == ts_find_z(FieldElement(p, 2), one, one_inv)
                    IN  ts_loop(Pow(z, q), Pow(x, (q + 1) \div 2), Pow(x, q), ss, one)

(***************************************************************************)
(* utils::bit_iter::BitIter<u32>                                           *)
(***************************************************************************)
U32Bits == 32

BitIterFrom(value) == [done |-> FALSE, b |-> U32Bits - 1, l |-> 0, value |-> value]

\* mutant: at_big leaves the big end at bit 31
at_big_KeepsTop(it) == it

\* BitIter::at_big: b = (0..size).rposition(|i| (value >> i) & 1 == 1).unwrap_or(l)
at_big(it) ==
  LET set == {i \in 0..(U32Bits - 1) : Shr(it.value, i) % 2 = 1}
  IN  [it EXCEPT !.b = IF set = {} THEN it.l
                       ELSE CHOOSE i \in set : \A j \in set : j <= i]

\* Iterator::next: the item (None or Some(bit)) and the iterator after the call
BitIterNext(it) ==
  IF it.done THEN [item |-> None, it |-> it]
  ELSE [item |-> Some(Shr(it.value, it.b) % 2 = 1),
        it |-> IF it.b = it.l THEN [it EXCEPT !.done = TRUE]
               ELSE [it EXCEPT !.b = it.b - 1]]

\* mutant: next_back reads the bit at the big end
BitIterNextBack_ReadsBig(it) ==
  IF it.done THEN [item |-> None, it |-> it]
  ELSE [item |-> Some(Shr(it.value, it.b) % 2 = 1),
        it |-> IF it.b = it.l THEN [it EXCEPT !.done = TRUE]
               ELSE [it EXCEPT !.l = it.l + 1]]

\* DoubleEndedIterator::next_back
BitIterNextBack(it) ==
  IF it.done THEN [item |-> None, it |-> it]
  ELSE [item |-> Some(Shr(it.value, it.l) % 2 = 1),
        it |-> IF it.b = it.l THEN [it EXCEPT !.done = TRUE]
               ELSE [it EXCEPT !.l = it.l + 1]]

RECURSIVE IterSkip(_, _)
\* Iterator::skip(n): n calls of next
IterSkip(it, n) == IF n > 0 THEN IterSkip(BitIterNext(it).it, n - 1) ELSE it

RECURSIVE IterSkipWhileFalse(_)
\* Iterator::skip_while(|b| b == &false): the iterator positioned at the first true bit
IterSkipWhileFalse(it) ==
  LET n == BitIterNext(it)
  IN  IF n.item = Some(FALSE) THEN IterSkipWhileFalse(n.it) ELSE it

RECURSIVE IterCount(_)
\* Iterator::count
IterCount(it) ==
  LET n == BitIterNext(it)
  IN  IF n.item = None THEN 0 ELSE 1 + IterCount(n.it)

RECURSIVE U32Digits(_)
\* BigUint::iter_u32_digits: least significant digit first, none for zero
U32Digits(k) ==
  IF k = 0 THEN << >>
  ELSE LET high == Shr(k, U32Bits)
       IN  <<k - high * (2 ^ (U32Bits \div 2)) * (2 ^ (U32Bits \div 2))>> \o U32Digits(high)

Reverse(seq) == [i \in 1..Len(seq) |-> seq[Len(seq) + 1 - i]]

(***************************************************************************)
(* curves::point::Point { x, y, z }                                        *)
(***************************************************************************)
Point(x, y, z) == [x |-> x, y |-> y, z |-> z]

is_infinity(p) == p.z.value = 0

infinity(f) == Point(Zero(f), One(f), Zero(f))

Panicked(p) == IsPanicFE(p.x) \/ IsPanicFE(p.y) \/ IsPanicFE(p.z)

PanicPoint(f) == Point(FieldElement(f, Panic), FieldElement(f, Panic), FieldElement(f, Panic))

\* a Point whose computation panicked is no value at all
Built(p) == IF Panicked(p) THEN PanicPoint(p.x.field) ELSE p

NegPoint(p) == Built(Point(p.x, Neg(p.y), p.z))

(***************************************************************************)
(* curves::weierstass::WeierstrassCurve { a, b }: y^2 = x^3 + Ax + B       *)
(***************************************************************************)
\* WeierstrassCurve::new: assert_eq!(a.field, b.field, "should be in the same field");
\* a curve whose construction panicked has panicked parameters
WeierstrassCurve(a, b) ==
  IF a.field # b.field
  THEN [a |-> FieldElement(a.field, Panic), b |-> FieldElement(b.field, Panic)]
  ELSE [a |-> a, b |-> b]

\* MontgomeryCurve::new: assert_eq!(a.field.order, b.field.order, "has to be in the same field")
MontgomeryCurve(a, b) ==
  IF a.field # b.field
  THEN [a |-> FieldElement(a.field, Panic), b |-> FieldElement(b.field, Panic)]
  ELSE [a |-> a, b |-> b]

evaluate_y(crv, x) ==
  tonelli_shanks(Add(Add(Mul(Mul(x, x), x), Mul(crv.a, x)), crv.b))

\* Each `let` of the source is bound once: the values are handed on as the
\* parameters of a local operator, in the order the source computes them.
point_double(crv, p1) ==
  LET result(three, slope, x) ==
        Built(Point(x,
                    Sub(Sub(Mul(Mul(three, p1.x), slope), Pow(slope, three.value)), p1.y),
                    One(x.field)))
      with_slope(three, slope) ==
        result(three, slope, Sub(Sub(Mul(slope, slope), p1.x), p1.x))
      with_three(three) ==
        with_slope(three, Div(Add(Mul(Mul(three, p1.x), p1.x), crv.a), Add(p1.y, p1.y)))
  IN  IF Panicked(p1) THEN PanicPoint(p1.x.field)
      ELSE IF is_infinity(p1) THEN p1
      ELSE with_three(FieldElement(p1.x.field, 3))

point_add(crv, p1, p2) ==
  LET result(slope, x) ==
        Built(Point(x,
                    Sub(Sub(Mul(Add(Add(p1.x, p1.x), p2.x), slope), Pow(slope, 3)), p1.y),
                    One(x.field)))
      with_slope(slope) == result(slope, Sub(Sub(Mul(slope, slope), p1.x), p2.x))
  IN  IF Panicked(p1) \/ Panicked(p2) THEN PanicPoint(p1.x.field)
      ELSE IF is_infinity(p1) THEN p2
      ELSE IF is_infinity(p2) THEN p1
      ELSE IF p1.x = p2.x
           THEN IF p1.y = Neg(p2.y) THEN infinity(p1.x.field)
                ELSE point_double(crv, p1)
      ELSE with_slope(Div(Sub(p2.y, p1.y), Sub(p2.x, p1.x)))

project_point_double(crv, p1) ==
  LET result(two, w, s, sss, rr, b, h) ==
        Built(Point(Mul(h, s), Sub(Mul(w, Sub(b, h)), Mul(two, rr)), sss))
      with_b(two, w, s, sss, rr, b) ==
        result(two, w, s, sss, rr, b, Sub(Mul(w, w), Mul(two, b)))
      with_rr(two, xx, w, s, sss, r, rr, xr) ==
        with_b(two, w, s, sss, rr, Sub(Sub(Mul(xr, xr), xx), rr))
      with_r(two, xx, w, s, sss, r) ==
        with_rr(two, xx, w, s, sss, r, Mul(r, r), Add(p1.x, r))
      with_ss(two, xx, w, s, ss) ==
        with_r(two, xx, w, s, Mul(s, ss), Mul(p1.y, s))
      with_s(two, xx, w, s) == with_ss(two, xx, w, s, Mul(s, s))
      with_xx(two, three, xx, zz) ==
        with_s(two, xx, Add(Mul(crv.a, zz), Mul(three, xx)), Mul(Mul(two, p1.y), p1.z))
  IN  with_xx(Get(p1.x.field, 2), Get(p1.x.field, 3), Mul(p1.x, p1.x), Mul(p1.z, p1.z))

project_point_add(crv, p1, p2) ==
  LET result(two, three, u1, u2, s1, s2, w, p, r, pp, ppp, rr) ==
        Built(Point(
          Mul(p, Add(Mul(Neg(Add(u1, u2)), pp), Mul(w, rr))),
          Div(Sub(Mul(r, Add(Mul(Mul(Neg(two), w), rr), Mul(Mul(three, Add(u1, u2)), pp))),
                  Mul(ppp, Add(s1, s2))),
              two),
          Mul(w, ppp)))
      with_pp(two, three, u1, u2, s1, s2, w, p, r, pp) ==
        result(two, three, u1, u2, s1, s2, w, p, r, pp, Mul(pp, p), Mul(r, r))
      with_p(two, three, u1, u2, s1, s2, w, p, r) ==
        with_pp(two, three, u1, u2, s1, s2, w, p, r, Mul(p, p))
      with_u(two, three, u1, u2, s1, s2, w) ==
        with_p(two, three, u1, u2, s1, s2, w, Sub(u2, u1), Sub(s2, s1))
  IN  with_u(Get(p1.x.field, 2), Get(p1.x.field, 3),
             Mul(p1.x, p2.z), Mul(p2.x, p1.z), Mul(p1.y, p2.z), Mul(p2.y, p1.z),
             Mul(p1.z, p2.z))

RECURSIVE daa_bits(_, _, _, _)
\* for b in BitIter::from(digit).rev(): the loop body of double_and_add; yields <<r0, r1>>
daa_bits(crv, it, r0, r1) ==
  LET n == BitIterNextBack(it)
  IN  IF Panicked(r0) \/ Panicked(r1)
      THEN <<PanicPoint(r0.x.field), PanicPoint(r0.x.field)>>
      ELSE IF n.item = None THEN <<r0, r1>>
      ELSE daa_bits(crv, n.it,
                    IF n.item = Some(TRUE) THEN point_add(crv, r0, r1)
                    ELSE point_add(crv, r0, infinity(r1.x.field)),
                    point_add(crv, r1, r1))

RECURSIVE daa_digits(_, _, _, _)
\* for digit in k.iter_u32_digits()
daa_digits(crv, digits, r0, r1) ==
  IF digits = << >> THEN r0
  ELSE LET r == daa_bits(crv, BitIterFrom(Head(digits)), r0, r1)
       IN  daa_digits(crv, Tail(digits), r[1], r[2])

double_and_add(crv, k, p1) ==
  daa_digits(crv, U32Digits(k), infinity(p1.x.field), p1)

RECURSIVE find_order_steps(_, _, _, _)
\* the locals <<t, n>> after at most `steps` more iterations of
\* while !t.is_infinity() { t = project_point_add(t, p); n += 1 }
\* (the iterations are taken in two halves, which keeps the evaluation shallow)
find_order_steps(crv, p, tn, steps) ==
  IF Panicked(tn[1]) \/ is_infinity(tn[1]) THEN tn
  ELSE IF steps = 1 THEN <<project_point_add(crv, tn[1], p), tn[2] + 1>>
  ELSE find_order_steps(crv, p, find_order_steps(crv, p, tn, steps \div 2),
                        steps - (steps \div 2))

RECURSIVE find_order_loop(_, _, _, _)
\* the whole loop: runs of 1, 2, 4, ... iterations until t is the identity
find_order_loop(crv, p, tn, steps) ==
  IF Panicked(tn[1]) THEN Panic
  ELSE IF is_infinity(tn[1]) THEN tn[2]
  ELSE find_order_loop(crv, p, find_order_steps(crv, p, tn, steps), 2 * steps)

\* mutant: the early return for the identity is dropped
find_order_NoIdentityCase(crv, p) ==
  IF Panicked(p) THEN Panic
  ELSE find_order_loop(crv, p, <<project_point_double(crv, p), 2>>, 1)

find_order(crv, p) ==
  IF Panicked(p) THEN Panic
  ELSE IF is_infinity(p) THEN 1
  ELSE find_order_loop(crv, p, <<project_point_double(crv, p), 2>>, 1)

\* the bit length computed at the head of montgomery_ladder and of miller
bit_length(n) ==
  LET digits == Reverse(U32Digits(n))
  IN  IF digits = << >> THEN 0
      ELSE IterCount(IterSkipWhileFalse(BitIterFrom(Head(digits))))
           + (Len(digits) - 1) * U32Bits

\* the scalar montgomery_ladder iterates over
ladder_scalar(k, order, bits) ==
  LET n_2 == 2 ^ bits
      d == IF k > n_2 THEN (k - n_2) % order
           ELSE order - ((n_2 - k) % order)
  IN  n_2 + d

RECURSIVE ladder_bits(_, _, _, _)
\* for b in BitIter::from(digit).skip(size - count); yields <<r0, r1>>
ladder_bits(crv, it, r0, r1) ==
  LET n == BitIterNext(it)
  IN  IF Panicked(r0) \/ Panicked(r1)
      THEN <<PanicPoint(r0.x.field), PanicPoint(r0.x.field)>>
      ELSE IF n.item = None THEN <<r0, r1>>
      ELSE IF n.item = Some(TRUE)
      THEN ladder_bits(crv, n.it, project_point_add(crv, r0, r1), project_point_double(crv, r1))
      ELSE ladder_bits(crv, n.it, project_point_double(crv, r0), project_point_add(crv, r0, r1))

RECURSIVE ladder_digits(_, _, _, _, _)
\* for digit in k.iter_u32_digits().rev() { count = bits % size; bits -= count; ... }
ladder_digits(crv, digits, bits, r0, r1) ==
  IF digits = << >> THEN r0
  ELSE LET count == bits % U32Bits
           r == ladder_bits(crv, IterSkip(BitIterFrom(Head(digits)), U32Bits - count), r0, r1)
       IN  ladder_digits(crv, Tail(digits), bits - count, r[1], r[2])

montgomery_ladder(crv, k, p1) ==
  LET order == find_order(crv, p1)
  IN  IF order = Panic THEN PanicPoint(p1.x.field)
      ELSE LET bits == bit_length(order)
               k1 == ladder_scalar(k, order, bits)
           IN  ladder_digits(crv, Reverse(U32Digits(k1)), bits,
                             p1, project_point_double(crv, p1))

PanicFE(f) == FieldElement(f, Panic)

eval_chord_tangent(crv, p, q, s) ==
  LET result(slope) ==
        Div(Sub(Sub(s.y, p.y), Mul(slope, Sub(s.x, p.x))),
            Sub(Add(Add(s.x, p.x), q.x), Mul(slope, slope)))
  IN  IF Panicked(p) \/ Panicked(q) \/ Panicked(s) THEN Some(PanicFE(crv.a.field))
      ELSE IF is_infinity(p) \/ is_infinity(q) THEN None
      ELSE IF p = NegPoint(q) THEN Some(Sub(s.x, p.x))
      ELSE IF p.x = q.x
      THEN Some(result(Div(Add(Mul(Mul(Get(crv.a.field, 3), p.x), p.x), crv.a),
                           Add(p.y, p.y))))
      ELSE Some(result(Div(Sub(q.y, p.y), Sub(q.x, p.x))))

RECURSIVE IterCollect(_)
\* the items an iterator yields, in order
IterCollect(it) ==
  LET n == BitIterNext(it)
  IN  IF n.item = None THEN << >> ELSE <<n.item[1]>> \o IterCollect(n.it)

RECURSIVE miller_array(_, _)
\* m.iter_u32_digits().flat_map(|digit| { count = bits % size; bits -= count; ... })
miller_array(digits, bits) ==
  IF digits = << >> THEN << >>
  ELSE LET count == bits % U32Bits
       IN  IterCollect(IterSkip(BitIterFrom(Head(digits)), U32Bits - count))
           \o miller_array(Tail(digits), bits - count)

RECURSIVE miller_loop(_, _, _, _, _, _)
\* for byte in array.skip(1) { ... }; `?` returns None, a panic ends the call
miller_loop(crv, p, q, bytes, t, f) ==
  LET added(f1, t1, temp) ==
        IF temp = None THEN None
        ELSE miller_loop(crv, p, q, Tail(bytes), point_add(crv, t1, p), Mul(f1, temp[1]))
      doubled(f1, t1) ==
        IF Panicked(t1) THEN Some(PanicFE(crv.a.field))
        ELSE IF Head(bytes) THEN added(f1, t1, eval_chord_tangent(crv, t1, p, q))
        ELSE miller_loop(crv, p, q, Tail(bytes), t1, f1)
      with_temp(temp) ==
        IF temp = None THEN None
        ELSE doubled(Mul(Mul(f, f), temp[1]), point_double(crv, t))
  IN  IF Panicked(t) \/ IsPanicFE(f) THEN Some(PanicFE(crv.a.field))
      ELSE IF bytes = << >> THEN Some(f)
      ELSE with_temp(eval_chord_tangent(crv, t, t, q))

\* mutant: the leading bit of m is not skipped
miller_NoSkip(crv, p, q, m) ==
  miller_loop(crv, p, q, miller_array(U32Digits(m), bit_length(m)), p, One(crv.a.field))

miller(crv, p, q, m) ==
  LET array == miller_array(U32Digits(m), bit_length(m))
  IN  miller_loop(crv, p, q, IF array = << >> THEN array ELSE Tail(array),
                  p, One(crv.a.field))

\* the bytes thread_rng may write into vec![0; order.bits()]: the leading bytes
\* are left zero and the last byte is at most MaxSampleByte or one of 121, 126,
\* 135.  Over the field 631 these sample x without a point (1, 2, 4, ...) and
\* points of every order there is: 130 (x = 0), 65 (6), 10 (38), 26 (126),
\* 13 (135) and 5 (36 and 121, which are -P and Q)
RandomBytesOf(n, last) == {[i \in 1..n |-> IF i = n THEN b ELSE 0] : b \in last}

RandomBytes(n) == RandomBytesOf(n, (0..MaxSampleByte) \cup {121, 126, 135})

\* the values random_point may return: a point for a draw with a root, None when
\* every one of its draws has none
random_point_of(crv, draws) ==
  LET f == crv.a.field
      draw(x, y) == IF y = None THEN None ELSE Some(Point(x, y[1][1], One(f)))
  IN  {draw(x, evaluate_y(crv, x)) : x \in {Sample(f, bytes) : bytes \in draws}}

random_point(crv) == random_point_of(crv, RandomBytes(bit_length(crv.a.field)))

tries == 100

\* the condition of the loop in weilpairing: "break", "retry" or "panic"
weil_condition(crv, m, p, q, s) ==
  LET with_order(order) ==
        IF order = Panic THEN "panic" ELSE IF order # m THEN "break" ELSE "retry"
      with_sum(sum) ==
        IF Panicked(sum) THEN "panic"
        ELSE IF s = sum THEN "retry"
        ELSE with_order(find_order(crv, s))
  IN  IF is_infinity(s) \/ s = p \/ s = NegPoint(q) THEN "retry"
      ELSE with_sum(point_add(crv, p, NegPoint(q)))

\* mutant: the Miller values of Q are taken at S, not at -S
weil_millers_SameS(crv, m, p, q, s) ==
  LET with_4(mp_q_s, mp_s, mq_p_ns, mq_ns) ==
        IF mq_ns = None THEN None
        ELSE Some(Div(Div(mp_q_s[1], mp_s[1]), Div(mq_p_ns[1], mq_ns[1])))
      with_3(mp_q_s, mp_s, mq_p_ns) ==
        IF mq_p_ns = None THEN None
        ELSE IF IsPanicFE(mq_p_ns[1]) THEN mq_p_ns
        ELSE with_4(mp_q_s, mp_s, mq_p_ns, miller(crv, q, s, m))
      with_2(mp_q_s, mp_s) ==
        IF mp_s = None THEN None
        ELSE IF IsPanicFE(mp_s[1]) THEN mp_s
        ELSE with_3(mp_q_s, mp_s, miller(crv, q, point_add(crv, p, s), m))
      with_1(mp_q_s) ==
        IF mp_q_s = None THEN None
        ELSE IF IsPanicFE(mp_q_s[1]) THEN mp_q_s
        ELSE with_2(mp_q_s, miller(crv, p, s, m))
  IN  with_1(miller(crv, p, point_add(crv, q, s), m))

\* the four Miller values and their quotient; `?` hands a None on
weil_millers(crv, m, p, q, s) ==
  LET with_4(mp_q_s, mp_s, mq_p_ns, mq_ns) ==
        IF mq_ns = None THEN None
        ELSE Some(Div(Div(mp_q_s[1], mp_s[1]), Div(mq_p_ns[1], mq_ns[1])))
      with_3(mp_q_s, mp_s, mq_p_ns) ==
        IF mq_p_ns = None THEN None
        ELSE IF IsPanicFE(mq_p_ns[1]) THEN mq_p_ns
        ELSE with_4(mp_q_s, mp_s, mq_p_ns, miller(crv, q, NegPoint(s), m))
      with_2(mp_q_s, mp_s) ==
        IF mp_s = None THEN None
        ELSE IF IsPanicFE(mp_s[1]) THEN mp_s
        ELSE with_3(mp_q_s, mp_s, miller(crv, q, point_add(crv, p, NegPoint(s)), m))
      with_1(mp_q_s) ==
        IF mp_q_s = None THEN None
        ELSE IF IsPanicFE(mp_q_s[1]) THEN mp_q_s
        ELSE with_2(mp_q_s, miller(crv, p, s, m))
  IN  with_1(miller(crv, p, point_add(crv, q, s), m))

RECURSIVE naive_mul(_, _, _)
\* tests::adds_n_mults: res = base; for _ in 1..times { res = point_add(res, base) }
naive_mul(crv, times, base) ==
  IF times <= 1 THEN base
  ELSE point_add(crv, naive_mul(crv, times - 1, base), base)

(***************************************************************************)
(* curves::montgomery::MontgomeryCurve: B*y^2 = x^3 + A*x^2 + x, with      *)
(* points Point { x, y }.                                                  *)
(***************************************************************************)
MPoint(x, y) == [x |-> x, y |-> y]

MPanicked(p) == IsPanicFE(p.x) \/ IsPanicFE(p.y)

\* a point whose computation panicked is no value at all
MBuilt(p) == IF MPanicked(p) THEN MPoint(PanicFE(p.x.field), PanicFE(p.x.field)) ELSE p

\* MontgomeryCurve::point_double
mont_point_double(crv, p1) ==
  LET f == crv.a.field
      two == FieldElement(f, 2)
      three == FieldElement(f, 3)
      result(slope) ==
        MBuilt(MPoint(
          Sub(Sub(Sub(Mul(crv.b, Pow(slope, 2)), crv.a), p1.x), p1.x),
          Sub(Sub(Mul(Add(Add(Mul(two, p1.x), p1.x), crv.a), slope),
                  Mul(crv.b, Pow(slope, 3))),
              p1.y)))
  IN  IF MPanicked(p1) THEN MBuilt(p1)
      ELSE result(Div(Add(Add(Mul(three, Pow(p1.x, 2)), Mul(Mul(two, crv.a), p1.x)), One(f)),
                      Mul(Mul(two, crv.b), p1.y)))

\* MontgomeryCurve::point_add
mont_point_add(crv, p1, p2) ==
  LET f == crv.a.field
      two == FieldElement(f, 2)
      result(slope) ==
        MBuilt(MPoint(
          Sub(Sub(Sub(Mul(crv.b, Pow(slope, 2)), crv.a), p1.x), p2.x),
          Sub(Sub(Mul(Add(Add(Mul(two, p1.x), p2.x), crv.a), slope),
                  Mul(crv.b, Pow(slope, 3))),
              p1.y)))
  IN  IF MPanicked(p1) \/ MPanicked(p2) THEN MPoint(PanicFE(f), PanicFE(f))
      ELSE IF p1.x = p2.x
      THEN IF p1.y = Neg(p2.y) THEN MPoint(p1.x, Zero(f))
           ELSE mont_point_double(crv, p1)
      ELSE result(Div(Sub(p2.y, p1.y), Sub(p2.x, p1.x)))

U128Bits == 128

\* BitIter::new(size, digit): the bit of the size-bit word at index i
mont_bit(digit, i) == IF i >= U32Bits THEN FALSE ELSE Shr(digit, i) % 2 = 1

RECURSIVE mont_ladder_bits(_, _, _, _, _)
\* for b in BitIter::new(u128::BITS as usize, digit), most significant bit first;
\* `left` bits are still to come; yields <<r0, r1>>
mont_ladder_bits(crv, digit, left, r0, r1) ==
  IF MPanicked(r0) \/ MPanicked(r1)
  THEN <<MPoint(PanicFE(crv.a.field), PanicFE(crv.a.field)),
         MPoint(PanicFE(crv.a.field), PanicFE(crv.a.field))>>
  ELSE IF left = 0 THEN <<r0, r1>>
  ELSE IF mont_bit(digit, left - 1)
  THEN mont_ladder_bits(crv, digit, left - 1,
                        mont_point_add(crv, r0, r1), mont_point_double(crv, r1))
  ELSE mont_ladder_bits(crv, digit, left - 1,
                        mont_point_double(crv, r0), mont_point_add(crv, r0, r1))

RECURSIVE mont_ladder_digits(_, _, _, _)
\* for digit in n.value.iter_u32_digits()
mont_ladder_digits(crv, digits, r0, r1) ==
  IF digits = << >> THEN r0
  ELSE LET r == mont_ladder_bits(crv, Head(digits), U128Bits, r0, r1)
       IN  mont_ladder_digits(crv, Tail(digits), r[1], r[2])

\* MontgomeryCurve::ladder
mont_ladder(crv, n, p1) ==
  mont_ladder_digits(crv, U32Digits(n.value), MPoint(Zero(p1.x.field), Zero(p1.x.field)), p1)

RECURSIVE mont_naive_mul(_, _, _)
\* the n-fold sum of base under point_add
mont_naive_mul(crv, times, base) ==
  IF times <= 1 THEN base
  ELSE mont_point_add(crv, mont_naive_mul(crv, times - 1, base), base)

(***************************************************************************)
(* Field arithmetic runs: one operation applied to operands of a field.    *)
(***************************************************************************)
ByteVals == {0, 1, 128, 255}

ByteStrings == UNION {[1..n -> ByteVals] : n \in 0..MaxBytes}

FieldInit ==
  /\ pc = "start"
  /\ args \in {r \in [field : 2..MaxOrder, a : 0..(MaxOrder - 1), b : 0..(MaxOrder - 1)] :
                 r.a < r.field /\ r.b < r.field}
  /\ ret = None
  /\ loc = None

ArgA == FieldElement(args.field, args.a)
ArgB == FieldElement(args.field, args.b)

Return(op, v) ==
  /\ pc = "start"
  /\ pc' = op
  /\ ret' = v
  /\ UNCHANGED <<args, loc>>

FieldGet == \E v \in 0..MaxRaw : Return("get", Get(args.field, v))
FieldZero == Return("zero", Zero(args.field))
FieldOne == Return("one", One(args.field))
FieldSample == \E bytes \in ByteStrings : Return("sample", Sample(args.field, bytes))
OpAdd == Return("add", Add(ArgA, ArgB))
OpSub == Return("sub", Sub(ArgA, ArgB))
OpMul == Return("mul", Mul(ArgA, ArgB))
OpDiv == Return("div", Div(ArgA, ArgB))
OpNeg == Return("neg", Neg(ArgA))
OpInverse == Return("inverse", Inverse(ArgA))
OpPow == \E e \in 0..MaxExp : Return("pow", Pow(ArgA, e))

FieldNext ==
  \/ FieldGet \/ FieldZero \/ FieldOne \/ FieldSample
  \/ OpAdd \/ OpSub \/ OpMul \/ OpDiv \/ OpNeg \/ OpInverse \/ OpPow

SpecField == FieldInit /\ [][FieldNext]_vars

(***************************************************************************)
(* Extended Euclid runs.                                                   *)
(***************************************************************************)
XgcdInit ==
  /\ pc = "start"
  /\ args \in [a : 0..MaxArg, b : 0..MaxArg]
  /\ ret = None
  /\ loc = None

CallGcd == Return("gcd", gcd(args.a, args.b))
CallUXgcd == Return("u_xgcd", u_xgcd(args.a, args.b))

XgcdNext == CallGcd \/ CallUXgcd

SpecXgcd == XgcdInit /\ [][XgcdNext]_vars

(***************************************************************************)
(* Tonelli-Shanks runs over the odd prime fields up to MaxPrime.           *)
(***************************************************************************)
IsPrime(n) == n >= 2 /\ \A d \in 2..(n - 1) : n % d # 0

OddPrimes(max) == {n \in 3..max : IsPrime(n)}

TonelliInit ==
  /\ pc = "start"
  /\ args \in {r \in [field : OddPrimes(MaxPrime), x : 0..(MaxPrime - 1)] : r.x < r.field}
  /\ ret = None
  /\ loc = None

CallTonelli == Return("tonelli_shanks", tonelli_shanks(FieldElement(args.field, args.x)))

TonelliNext == CallTonelli

SpecTonelli == TonelliInit /\ [][TonelliNext]_vars

(***************************************************************************)
(* Generator runs over the odd prime fields up to MaxGenPrime.             *)
(***************************************************************************)
GeneratorInit ==
  /\ pc = "start"
  /\ args \in [field : OddPrimes(MaxGenPrime)]
  /\ ret = None
  /\ loc = None

CallGenerator == Return("generator", generator(args.field))

GeneratorNext == CallGenerator

SpecGenerator == GeneratorInit /\ [][GeneratorNext]_vars

(***************************************************************************)
(* Bit-iterator runs: BitIter::from(v).at_big() consumed by any sequence   *)
(* of next() and next_back() calls.  `loc` holds the iterator, the number  *)
(* of calls of either kind that returned Some, the bit index the last call *)
(* read and the indices read so far (`twice` once an index is read again). *)
(***************************************************************************)
BitInit ==
  /\ pc = "start"
  /\ args \in [value : (0..MaxBitValue) \cup {2 ^ 30, 2 ^ 30 + 2 ^ 29 + 5, 2 ^ 30 - 1 + 2 ^ 30}]
  /\ ret = None
  /\ loc = [it |-> at_big(BitIterFrom(args.value)),
            fronts |-> 0, backs |-> 0, pos |-> 0, seen |-> {}, twice |-> FALSE]

\* the bookkeeping of a call that read index `pos` and returned `r.item`
BitCalled(r, pos, isFront) ==
  /\ ret' = r.item
  /\ loc' = IF r.item = None THEN [loc EXCEPT !.it = r.it]
            ELSE [it |-> r.it,
                  fronts |-> IF isFront THEN loc.fronts + 1 ELSE loc.fronts,
                  backs |-> IF isFront THEN loc.backs ELSE loc.backs + 1,
                  pos |-> pos,
                  seen |-> loc.seen \cup {pos},
                  twice |-> loc.twice \/ pos \in loc.seen]
  /\ UNCHANGED args

CallNext ==
  /\ pc' = "next"
  /\ BitCalled(BitIterNext(loc.it), loc.it.b, TRUE)

CallNextBack ==
  /\ pc' = "next_back"
  /\ BitCalled(BitIterNextBack(loc.it), loc.it.l, FALSE)

BitNext == CallNext \/ CallNextBack

SpecBitIter == BitInit /\ [][BitNext]_vars

(***************************************************************************)
(* Mixed-field runs: one operation handed an element a of the prime field  *)
(* fa and an element b of another prime field fb.                          *)
(***************************************************************************)
MixedInit ==
  /\ pc = "start"
  /\ \E fa \in OddPrimes(MaxMixPrime) :
       \E fb \in OddPrimes(MaxMixPrime) \ {fa}, a \in 0..(fa - 1) :
         \E b \in 0..(fb - 1) :
           args = [fa |-> fa, a |-> a, fb |-> fb, b |-> b]
  /\ ret = None
  /\ loc = None

MixA == FieldElement(args.fa, args.a)
MixB == FieldElement(args.fb, args.b)

MixAdd == Return("add", Add(MixA, MixB))
MixSub == Return("sub", Sub(MixA, MixB))
MixMul == Return("mul", Mul(MixA, MixB))
MixDiv == Return("div", Div(MixA, MixB))
MixWeierstrassNew == Return("WeierstrassCurve::new", WeierstrassCurve(MixA, MixB))
MixMontgomeryNew == Return("MontgomeryCurve::new", MontgomeryCurve(MixA, MixB))

MixedNext ==
  \/ MixAdd \/ MixSub \/ MixMul \/ MixDiv
  \/ MixWeierstrassNew \/ MixMontgomeryNew

SpecMixed == MixedInit /\ [][MixedNext]_vars

(***************************************************************************)
(* evaluate_y runs: every curve (a, b) over the odd primes up to           *)
(* MaxCurvePrime and every field element x.                                *)
(***************************************************************************)
EvalYInit ==
  /\ pc = "start"
  /\ \E f \in OddPrimes(MaxCurvePrime) :
       \E a \in 0..(f - 1), b \in 0..(f - 1), x \in 0..(f - 1) :
         args = [field |-> f, a |-> a, b |-> b, x |-> x]
  /\ ret = None
  /\ loc = None

CallEvaluateY ==
  Return("evaluate_y",
         evaluate_y(WeierstrassCurve(FieldElement(args.field, args.a),
                                     FieldElement(args.field, args.b)),
                    FieldElement(args.field, args.x)))

EvalYNext == CallEvaluateY

SpecEvalY == EvalYInit /\ [][EvalYNext]_vars

(***************************************************************************)
(* Weierstrass curve runs: one operation applied to a point of a curve     *)
(* over an odd prime field up to MaxCurvePrime.                            *)
(***************************************************************************)
\* the points of y^2 = x^3 + Ax + B over the field, and the identity
CurvePoints(f, a, b) ==
  {Point(FieldElement(f, xy[1]), FieldElement(f, xy[2]), One(f)) :
     xy \in {c \in (0..(f - 1)) \X (0..(f - 1)) :
               (c[2] * c[2]) % f = (c[1] * c[1] * c[1] + a * c[1] + b) % f}}
  \cup {infinity(f)}

CurveInit ==
  /\ pc = "start"
  /\ \E f \in OddPrimes(MaxCurvePrime), k \in 0..MaxScalar :
       \E a \in 0..(f - 1), b \in 0..(f - 1) :
         \E p \in CurvePoints(f, a, b) :
           args = [field |-> f, a |-> a, b |-> b, p |-> p, k |-> k]
  /\ ret = None
  /\ loc = None

ArgCurve == WeierstrassCurve(FieldElement(args.field, args.a), FieldElement(args.field, args.b))

CallDoubleAndAdd == Return("double_and_add", double_and_add(ArgCurve, args.k, args.p))
CallMontgomeryLadder == Return("montgomery_ladder", montgomery_ladder(ArgCurve, args.k, args.p))
CallFindOrder == Return("find_order", find_order(ArgCurve, args.p))
CallPointAddNeg == Return("point_add_neg", point_add(ArgCurve, args.p, NegPoint(args.p)))
CallPointDouble == Return("point_double", point_double(ArgCurve, args.p))
CallPointAddSelf == Return("point_add_self", point_add(ArgCurve, args.p, args.p))

CurveNext ==
  \/ CallDoubleAndAdd \/ CallMontgomeryLadder \/ CallFindOrder
  \/ CallPointAddNeg \/ CallPointDouble \/ CallPointAddSelf

SpecCurve == CurveInit /\ [][CurveNext]_vars

(***************************************************************************)
(* Tonelli-Shanks step by step: the scan for the non-residue z and the     *)
(* main loop, one iteration per step.  `loc` holds the locals z, c, r, t,  *)
(* m and ss, and the number of passes of the main loop that did not        *)
(* return.                                                                 *)
(***************************************************************************)
TsInit ==
  /\ pc = "start"
  /\ args \in {r \in [field : OddPrimes(MaxPrime), x : 0..(MaxPrime - 1)] : r.x < r.field}
  /\ ret = None
  /\ loc = [z |-> 0, c |-> 0, r |-> 0, t |-> 0, m |-> 0, ss |-> 0, passes |-> 0]

TsX == FieldElement(args.field, args.x)

TsQ == ts_factor(args.field - 1, 0)[1]

TsReturn(v) ==
  /\ pc' = "returned"
  /\ ret' = v
  /\ UNCHANGED <<args, loc>>

\* the Euler criterion, the factoring of p - 1 and the closed form for ss = 1
TsEnter ==
  /\ pc = "start"
  /\ IF Pow(TsX, (args.field - 1) \div 2) # One(args.field)
     THEN TsReturn(None)
     ELSE IF ts_factor(args.field - 1, 0)[2] = 1
     THEN LET r1 == Pow(TsX, (args.field + 1) \div 4) IN TsReturn(Some(<<r1, Neg(r1)>>))
     ELSE /\ pc' = "scan"
          /\ loc' = [loc EXCEPT !.z = 2, !.ss = ts_factor(args.field - 1, 0)[2]]
          /\ UNCHANGED <<args, ret>>

\* one evaluation of while z ^ ((p - 1) / 2) != one_inv { z = z + one }, the locals
\* of the main loop after it
TsScan ==
  /\ pc = "scan"
  /\ IF Pow(FieldElement(args.field, loc.z), (args.field - 1) \div 2) # Neg(One(args.field))
     THEN /\ loc' = [loc EXCEPT !.z = Add(FieldElement(args.field, @), One(args.field)).value]
          /\ pc' = "scan"
     ELSE /\ loc' = [loc EXCEPT !.c = Pow(FieldElement(args.field, loc.z), TsQ).value,
                                !.r = Pow(TsX, (TsQ + 1) \div 2).value,
                                !.t = Pow(TsX, TsQ).value,
                                !.m = loc.ss]
          /\ pc' = "loop"
  /\ UNCHANGED <<args, ret>>

\* the locals after one pass of the main loop that does not return; m is Panic when
\* m - 1 or m - i - 1 underflows
ts_pass(c, r, t, m, one) ==
  LET with_b(i, b) ==
        [c |-> Mul(b, b).value, t |-> Mul(t, Mul(b, b)).value, r |-> Mul(r, b).value, m |-> i]
      with_e(i, e) ==
        IF e = Panic THEN [c |-> c.value, t |-> t.value, r |-> r.value, m |-> Panic]
        ELSE with_b(i, ts_square(c, e))
      with_i(i) == with_e(i, IF i = Panic THEN Panic ELSE USub(USub(m, i), 1))
  IN  with_i(ts_find_i(t, 0, m, one))

TsLocals ==
  ts_pass(FieldElement(args.field, loc.c), FieldElement(args.field, loc.r),
          FieldElement(args.field, loc.t), loc.m, One(args.field))

\* one pass of the main loop
TsPass ==
  /\ pc = "loop"
  /\ IF loc.t = 1
     THEN TsReturn(Some(<<FieldElement(args.field, loc.r), Neg(FieldElement(args.field, loc.r))>>))
     ELSE IF TsLocals.m = Panic
     THEN pc' = "panicked" /\ UNCHANGED <<args, ret, loc>>
     ELSE /\ loc' = [loc EXCEPT !.c = TsLocals.c, !.t = TsLocals.t, !.r = TsLocals.r,
                                !.m = TsLocals.m, !.passes = @ + 1]
          /\ pc' = "loop"
          /\ UNCHANGED <<args, ret>>

TsNext == TsEnter \/ TsScan \/ TsPass

SpecTonelliSteps == TsInit /\ [][TsNext]_vars

\* a call that has started runs on until it has returned or aborted: nothing else is
\* scheduled.  This is WF_vars(TsNext) with ENABLED <<TsNext>>_vars written out: a
\* step is possible exactly when pc is "start", "scan" or "loop"
SpecTonelliStepsFair ==
  SpecTonelliSteps /\ ([]<><<TsNext>>_vars \/ <>[](pc \in {"returned", "panicked"}))

(***************************************************************************)
(* Ladder-scalar runs: the remapping montgomery_ladder applies to k for a  *)
(* point whose find_order is `order`.                                      *)
(***************************************************************************)
LadderScalarInit ==
  /\ pc = "start"
  /\ args \in [k : 0..MaxLadderK, order : 1..MaxLadderOrder]
  /\ ret = None
  /\ loc = None

CallLadderScalar ==
  Return("ladder_scalar", ladder_scalar(args.k, args.order, bit_length(args.order)))

LadderScalarNext == CallLadderScalar

SpecLadderScalar == LadderScalarInit /\ [][LadderScalarNext]_vars

(***************************************************************************)
(* Projective runs: project_point_add(P1, P2) and project_point_double(P1) *)
(* on every curve over the odd primes up to MaxCurvePrime.  P1 and P2 are  *)
(* points of the curve in projective form: the identity, an affine point   *)
(* with z = 1, or what project_point_double returned for one of these.     *)
(***************************************************************************)
ProjectivePoints(f, a, b) ==
  CurvePoints(f, a, b)
  \cup {r \in {project_point_double(WeierstrassCurve(FieldElement(f, a), FieldElement(f, b)), q) :
                 q \in CurvePoints(f, a, b)} : ~Panicked(r)}

ProjectiveInit ==
  /\ pc = "start"
  /\ \E f \in OddPrimes(MaxCurvePrime) :
       \E a \in 0..(f - 1), b \in 0..(f - 1) :
         \E p1 \in ProjectivePoints(f, a, b), p2 \in ProjectivePoints(f, a, b) :
           args = [field |-> f, a |-> a, b |-> b, p1 |-> p1, p2 |-> p2]
  /\ ret = None
  /\ loc = None

CallProjectPointAdd ==
  Return("project_point_add", project_point_add(ArgCurve, args.p1, args.p2))

CallProjectPointDouble ==
  Return("project_point_double", project_point_double(ArgCurve, args.p1))

ProjectiveNext == CallProjectPointAdd \/ CallProjectPointDouble

SpecProjective == ProjectiveInit /\ [][ProjectiveNext]_vars

(***************************************************************************)
(* Montgomery-curve runs: ladder(n, P) on every curve B*y^2 = x^3 + A*x^2  *)
(* + x over the odd primes up to MaxCurvePrime, P any of its points and n  *)
(* in 1..MaxLadderN; point_add and point_double handed the ladder's        *)
(* starting accumulator (0, 0).                                            *)
(***************************************************************************)
MontPoints(f, a, b) ==
  {MPoint(FieldElement(f, xy[1]), FieldElement(f, xy[2])) :
     xy \in {c \in (0..(f - 1)) \X (0..(f - 1)) :
               (b * c[2] * c[2]) % f = (c[1] * c[1] * c[1] + a * c[1] * c[1] + c[1]) % f}}

MontInit ==
  /\ pc = "start"
  /\ \E f \in OddPrimes(MaxCurvePrime), n \in 1..MaxLadderN :
       \E a \in 0..(f - 1), b \in 0..(f - 1) :
         \E p \in MontPoints(f, a, b) :
           args = [field |-> f, a |-> a, b |-> b, p |-> p, n |-> n]
  /\ ret = None
  /\ loc = None

MontCurve == MontgomeryCurve(FieldElement(args.field, args.a), FieldElement(args.field, args.b))

MontZero == MPoint(Zero(args.field), Zero(args.field))

\* the scalar, an element of the curve's field
MontN == FieldElement(args.field, args.n % args.field)

CallMontLadder == Return("ladder", mont_ladder(MontCurve, MontN, args.p))

CallMontAddZero == Return("point_add", mont_point_add(MontCurve, MontZero, args.p))

CallMontDoubleZero == Return("point_double", mont_point_double(MontCurve, MontZero))

MontNext == CallMontLadder \/ CallMontAddZero \/ CallMontDoubleZero

SpecMontgomery == MontInit /\ [][MontNext]_vars

(***************************************************************************)
(* Divisor-evaluation runs: eval_chord_tangent(P, Q, S) and                *)
(* miller(P, Q, m) on every curve over the odd primes up to MaxCurvePrime, *)
(* P and Q any two of its points (the identity included).  The third       *)
(* argument (S, any point of the curve, or m in 1..MaxMillerM) is drawn    *)
(* when the call is made and recorded in args.                             *)
(***************************************************************************)
DivisorInit ==
  /\ pc = "start"
  /\ \E f \in OddPrimes(MaxCurvePrime) :
       \E a \in 0..(f - 1), b \in 0..(f - 1) :
         \E p \in CurvePoints(f, a, b), q \in CurvePoints(f, a, b) :
           args = [field |-> f, a |-> a, b |-> b, p |-> p, q |-> q, s |-> None, m |-> 0]
  /\ ret = None
  /\ loc = None

CallEvalChordTangent ==
  /\ pc = "start"
  /\ \E s \in CurvePoints(args.field, args.a, args.b) :
       /\ args' = [args EXCEPT !.s = s]
       /\ ret' = eval_chord_tangent(ArgCurve, args.p, args.q, s)
  /\ pc' = "eval_chord_tangent"
  /\ UNCHANGED loc

CallMiller ==
  /\ pc = "start"
  /\ \E m \in 1..MaxMillerM :
       /\ args' = [args EXCEPT !.m = m]
       /\ ret' = miller(ArgCurve, args.p, args.q, m)
  /\ pc' = "miller"
  /\ UNCHANGED loc

DivisorNext == CallEvalChordTangent \/ CallMiller

SpecDivisor == DivisorInit /\ [][DivisorNext]_vars

(***************************************************************************)
(* Weil pairing runs: tests::weilpairing on the curve a=30, b=34 over the  *)
(* field 631 with P=(36,60), Q=(121,387).  The test computes               *)
(* pairing = weilpairing(m, P, Q) and then, for a scalar a, the pairing of *)
(* a*P with Q or of P with a*Q.  weilpairing is followed through its       *)
(* sampling loop: `loc.s` and `loc.i` are its locals s and i.              *)
(***************************************************************************)
WeilField == 631

WeilCurve == WeierstrassCurve(Get(WeilField, 30), Get(WeilField, 34))

WeilP == Point(Get(WeilField, 36), Get(WeilField, 60), One(WeilField))

WeilQ == Point(Get(WeilField, 121), Get(WeilField, 387), One(WeilField))

WeilInit ==
  /\ pc = "call"
  /\ args = [m |-> find_order(WeilCurve, WeilP), p |-> WeilP, q |-> WeilQ]
  /\ ret = None
  /\ loc = [call |-> 1, pairing |-> None, a |-> 0, side |-> "", s |-> None, i |-> 0]

\* let mut s = self.random_point().expect("failed to gen point")
WeilSampleOf(i, points) ==
  \E r \in points :
    IF r = None
    THEN pc' = "failed to gen point" /\ UNCHANGED loc
    ELSE pc' = "loop" /\ loc' = [loc EXCEPT !.s = r[1], !.i = i]

WeilSample(i) == WeilSampleOf(i, random_point(WeilCurve))

WeilEnter ==
  /\ pc = "call"
  /\ WeilSample(0)
  /\ UNCHANGED <<args, ret>>

\* the value weilpairing returns; its locals are gone
WeilReturn(r) ==
  IF r # None /\ IsPanicFE(r[1])
  THEN pc' = "panicked" /\ UNCHANGED <<args, ret, loc>>
  ELSE /\ pc' = "returned"
       /\ ret' = r
       /\ loc' = [loc EXCEPT !.s = None, !.i = 0]
       /\ UNCHANGED args

\* one evaluation of the loop condition: leave the loop (the comparison of i with `tries`
\* and the four Miller values follow), or draw a new s and count it; the runs follow
\* the loop for `cap` draws out of `points`
WeilLoopOf(cond, cap, points) ==
  IF cond = "break"
  THEN IF loc.i = tries
       THEN pc' = "failed to generate proper s" /\ UNCHANGED <<args, ret, loc>>
       ELSE WeilReturn(weil_millers(WeilCurve, args.m, args.p, args.q, loc.s))
  ELSE IF cond = "retry"
  THEN /\ loc.i < cap
       /\ WeilSampleOf(loc.i + 1, points)
       /\ UNCHANGED <<args, ret>>
  ELSE pc' = "panicked" /\ UNCHANGED <<args, ret, loc>>

WeilLoopOn(cond) == WeilLoopOf(cond, MaxResample, random_point(WeilCurve))

WeilLoop ==
  /\ pc = "loop"
  /\ WeilLoopOn(weil_condition(WeilCurve, args.m, args.p, args.q, loc.s))

\* let pairing = pairing.unwrap(); the bilinear block with its scalar a, on one side
TestBilinear ==
  /\ pc = "returned"
  /\ loc.call = 1
  /\ ret # None
  /\ \E a \in {n \in 1..MaxScalarA : n % args.m # 0}, side \in {"p", "q"} :
       /\ args' = IF side = "p"
                  THEN [args EXCEPT !.p = double_and_add(WeilCurve, a, WeilP)]
                  ELSE [args EXCEPT !.q = double_and_add(WeilCurve, a, WeilQ)]
       /\ loc' = [loc EXCEPT !.call = 2, !.pairing = ret[1], !.a = a, !.side = side]
  /\ pc' = "call"
  /\ ret' = None

WeilNext == WeilEnter \/ WeilLoop \/ TestBilinear

SpecWeil == WeilInit /\ [][WeilNext]_vars

(***************************************************************************)
(* Re-sampling runs: the first call of tests::weilpairing with a sampler   *)
(* that hands over points of order 5 only (every one of them a candidate   *)
(* the loop rejects), its loop followed for MaxRejections draws.           *)
(***************************************************************************)
\* the draws of these runs: x = 36 and x = 121, the abscissae of P and Q
RetryDraws ==
  random_point_of(WeilCurve, RandomBytesOf(bit_length(WeilField), {WeilP.x.value, WeilQ.x.value}))

RetryEnter ==
  /\ pc = "call"
  /\ WeilSampleOf(0, RetryDraws)
  /\ UNCHANGED <<args, ret>>

RetryLoop ==
  /\ pc = "loop"
  /\ WeilLoopOf(weil_condition(WeilCurve, args.m, args.p, args.q, loc.s), MaxRejections, RetryDraws)

RetryNext == RetryEnter \/ RetryLoop

SpecWeilRetry == WeilInit /\ [][RetryNext]_vars

(***************************************************************************)
(* Late-acceptance runs: the first call of tests::weilpairing with a       *)
(* sampler that hands over the points of order 5 of the re-sampling runs   *)
(* and a point of order 10 (x = 38), a candidate the loop accepts; the     *)
(* loop is followed for MaxRejections draws, so a candidate is accepted    *)
(* after any number of rejected ones.                                      *)
(***************************************************************************)
AcceptDraws ==
  random_point_of(WeilCurve,
                  RandomBytesOf(bit_length(WeilField), {WeilP.x.value, WeilQ.x.value, 38}))

AcceptEnter ==
  /\ pc = "call"
  /\ WeilSampleOf(0, AcceptDraws)
  /\ UNCHANGED <<args, ret>>

AcceptLoop ==
  /\ pc = "loop"
  /\ WeilLoopOf(weil_condition(WeilCurve, args.m, args.p, args.q, loc.s), MaxRejections, AcceptDraws)

AcceptNext == AcceptEnter \/ AcceptLoop

SpecWeilAccept == WeilInit /\ [][AcceptNext]_vars

(***************************************************************************)
(* Alternating runs: the last block of tests::weilpairing pairs a point    *)
(* R = a*P of the subgroup of P with itself (the test takes P and 7P).     *)
(***************************************************************************)
AltInit ==
  /\ pc = "call"
  /\ \E a \in {n \in 1..MaxScalarA : n % find_order(WeilCurve, WeilP) # 0} :
       /\ args = [m |-> find_order(WeilCurve, WeilP),
                  p |-> double_and_add(WeilCurve, a, WeilP),
                  q |-> double_and_add(WeilCurve, a, WeilP)]
       /\ loc = [call |-> 1, pairing |-> None, a |-> a, side |-> "both", s |-> None, i |-> 0]
  /\ ret = None

AltNext == WeilEnter \/ WeilLoop

SpecWeilAlt == AltInit /\ [][AltNext]_vars

(***************************************************************************)
(* C1: division round trip.  For every modulus n >= 2 and all a, b in      *)
(* [0, n) with gcd(b, n) = 1, (a / b) * b == a.                            *)
(***************************************************************************)
C1_DivRoundTrip ==
  (pc = "div" /\ gcd(args.b, args.field) = 1) => Mul(ret, ArgB) = ArgA

\* the modulus-8 test: 2 / 7 == 6
C1_Witness ==
  /\ pc = "div"
  /\ args = [field |-> 8, a |-> 2, b |-> 7]
  /\ ret = FieldElement(8, 6)

(***************************************************************************)
(* C2: range invariant.  Every FieldElement obtained from get, zero, one,  *)
(* sample, and every result of + - * / neg inverse ^ on operands in        *)
(* [0, p), has 0 <= value < p; the only abort is division by zero.         *)
(***************************************************************************)
C2_RangeInvariant ==
  pc # "start" =>
    \/ /\ ret.field = args.field
       /\ ret.value \in 0..(args.field - 1)
    \/ /\ pc = "div"
       /\ args.b = 0
       /\ IsPanicFE(ret)

\* a subtraction that wraps around: 1 - 3 in the field of order 7
C2_Witness ==
  /\ pc = "sub"
  /\ args = [field |-> 7, a |-> 1, b |-> 3]
  /\ ret = FieldElement(7, 5)

(***************************************************************************)
(* C4: extended Euclid.  For all unsigned a, b (a = 0, b = 0, a = b        *)
(* included) u_xgcd(a, b) returns (x, y, g) with a*x + b*y == g and        *)
(* g == gcd(a, b).                                                         *)
(***************************************************************************)
C4_Bezout ==
  pc = "u_xgcd" =>
    /\ args.a * ret[1] + args.b * ret[2] = ret[3]
    /\ ret[3] = gcd(args.a, args.b)

\* a run with a negative coefficient: u_xgcd(12, 5) == (-2, 5, 1)
C4_Witness ==
  /\ pc = "u_xgcd"
  /\ args = [a |-> 12, b |-> 5]
  /\ ret = <<-2, 5, 1>>
(***************************************************************************)
(* C3: Tonelli-Shanks correctness.  For every odd prime p and every x in   *)
(* [1, p), tonelli_shanks(x) returns Some((r, s)) with r*r mod p == x and  *)
(* s == -r mod p when x has a square root, and None when it has none.      *)
(***************************************************************************)
HasRoot(p, x) == \E y \in 0..(p - 1) : (y * y) % p = x

C3_TonelliCorrect ==
  (pc = "tonelli_shanks" /\ args.x >= 1) =>
    IF HasRoot(args.field, args.x)
    THEN /\ ret # None
         /\ LET r == ret[1][1]
                s == ret[1][2]
            IN  /\ r.field = args.field /\ s.field = args.field
                /\ r.value \in 0..(args.field - 1)
                /\ (r.value * r.value) % args.field = args.x
                /\ s.value = (args.field - r.value) % args.field
    ELSE ret = None

\* the modulus-101 test, where p - 1 = 25 * 2^2 and the main loop runs: 56 -> (37, 64)
C3_Witness ==
  /\ pc = "tonelli_shanks"
  /\ args = [field |-> 101, x |-> 56]
  /\ ret = Some(<<FieldElement(101, 37), FieldElement(101, 64)>>)

(***************************************************************************)
(* C5: double_and_add(k, P) equals the k-fold repeated affine point_add of *)
(* P (the identity Point::infinity for k = 0), for every scalar k >= 0 and *)
(* every point P of the curve, points of order 2 and the identity included.*)
(***************************************************************************)
C5_DoubleAndAddIsRepeatedAdd ==
  pc = "double_and_add" =>
    ret = IF args.k = 0 THEN infinity(args.field)
          ELSE naive_mul(ArgCurve, args.k, args.p)

\* the curve has no singular point: its discriminant -16(4A^3 + 27B^2) is not zero
NonSingular == (4 * args.a * args.a * args.a + 27 * args.b * args.b) % args.field # 0

\* a point of order 2 multiplied by an odd scalar greater than one
C5_Witness ==
  /\ pc = "double_and_add"
  /\ NonSingular
  /\ args.k = 3
  /\ ~is_infinity(args.p)
  /\ args.p.y.value = 0
  /\ ret = args.p

(***************************************************************************)
(* C6: for every curve over a small prime field, every non-identity affine *)
(* point P on it and every scalar k >= 0 with k*P not the identity,        *)
(* montgomery_ladder(k, P) returns a projective point with z # 0 whose     *)
(* affine conversion (x/z, y/z) equals the coordinates of                  *)
(* double_and_add(k, P).                                                   *)
(***************************************************************************)
\* stated for the curves without a singular point, the narrowest reading of "every curve"
C6_LadderAgrees ==
  LET expected == double_and_add(ArgCurve, args.k, args.p)
  IN  (/\ pc = "montgomery_ladder"
       /\ NonSingular
       /\ ~is_infinity(args.p)
       /\ ~is_infinity(expected)) =>
        /\ ~Panicked(ret)
        /\ ret.z.value # 0
        /\ Div(ret.x, ret.z) = expected.x
        /\ Div(ret.y, ret.z) = expected.y

(***************************************************************************)
(* C7: find_order(P) returns the least n >= 1 such that n*P is the         *)
(* identity, for every point P of the curve (1 for the identity, 2 for a   *)
(* point with y = 0); and double_and_add(find_order(P), P) is              *)
(* Point::infinity(field).                                                 *)
(***************************************************************************)
C7_FindOrderLeast ==
  pc = "find_order" =>
    /\ ret \in Nat
    /\ ret >= 1
    /\ naive_mul(ArgCurve, ret, args.p) = infinity(args.field)
    /\ \A n \in 1..(ret - 1) : naive_mul(ArgCurve, n, args.p) # infinity(args.field)
    /\ double_and_add(ArgCurve, ret, args.p) = infinity(args.field)
    /\ is_infinity(args.p) => ret = 1
    /\ (~is_infinity(args.p) /\ args.p.y.value = 0) => ret = 2

\* a point generating a group of 9 elements
C7_Witness ==
  /\ pc = "find_order"
  /\ ret = 9

(***************************************************************************)
(* C8: for every point P of a Weierstrass curve, the identity itself and   *)
(* points with y = 0 included, point_add(P, -P) equals                     *)
(* Point::infinity(field) under the derived equality of Point.             *)
(***************************************************************************)
\* stated for the curves without a singular point
C8_InverseLaw ==
  (pc = "point_add_neg" /\ NonSingular) => ret = infinity(args.field)

(***************************************************************************)
(* C9: for every point P of a Weierstrass curve, the identity and points   *)
(* with y = 0 included, point_double(P) returns the same point as          *)
(* point_add(P, P).                                                        *)
(***************************************************************************)
\* stated for the curves without a singular point
C9_DoubleIsAddSelf ==
  (pc = "point_double" /\ NonSingular) =>
    /\ ~Panicked(ret)
    /\ ret = point_add(ArgCurve, args.p, args.p)

(***************************************************************************)
(* C10: the Weil pairing is bilinear.  On the curve a=30, b=34 over 631    *)
(* with m = 5, P = (36,60), Q = (121,387), for every scalar a not          *)
(* divisible by m and every auxiliary point S the sampler can accept in    *)
(* each call, weilpairing(m, a*P, Q) and weilpairing(m, P, a*Q) equal      *)
(* weilpairing(m, P, Q)^a: no accepted S makes a call fail, and the value  *)
(* does not depend on the S drawn.                                         *)
(***************************************************************************)
C10_Bilinear ==
  /\ pc # "panicked"
  /\ pc = "returned" => ret # None
  /\ (pc = "returned" /\ loc.call = 2) => ret = Some(Pow(loc.pairing, loc.a))

\* the test's own case: a = 7 on the side of P, with pairing = 242 and 242^7 = 512
C10_Witness ==
  /\ pc = "returned"
  /\ loc.call = 2
  /\ loc.a = 7
  /\ loc.side = "p"
  /\ loc.pairing = Get(WeilField, 242)
  /\ ret = Some(Get(WeilField, 512))

(***************************************************************************)
(* C11: the Weil pairing value is a non-trivial m-th root of unity.  On    *)
(* the curve a=30, b=34 over 631 with m = 5, P = (36,60), Q = (121,387),   *)
(* for every auxiliary point S the sampler can accept,                     *)
(* weilpairing(m, P, Q) returns Some(e) with e # 1 and e^m = 1.            *)
(***************************************************************************)
C11_RootOfUnity ==
  /\ (pc = "panicked" => loc.call # 1)
  /\ (pc = "returned" /\ loc.call = 1) =>
       /\ ret # None
       /\ ret[1] # One(WeilField)
       /\ Pow(ret[1], args.m) = One(WeilField)

\* the first call of the test has returned the value 242 for m = 5
C11_Witness ==
  /\ pc = "returned"
  /\ loc.call = 1
  /\ args.m = 5
  /\ ret = Some(Get(WeilField, 242))

(***************************************************************************)
(* C12: the Weil pairing is alternating.  On the curve a=30, b=34 over 631 *)
(* with m = 5, for every non-identity point R of the subgroup generated by *)
(* P = (36,60) and every auxiliary point S the sampler can accept,         *)
(* weilpairing(m, R, R) = Some(1); no accepted S makes the call abort.     *)
(***************************************************************************)
C12_Alternating ==
  /\ pc # "panicked"
  /\ pc = "returned" => ret = Some(One(WeilField))

\* the test's second case, R = 7P = 2P, has returned
C12_Witness ==
  /\ pc = "returned"
  /\ loc.a = 7
  /\ args.p = args.q
  /\ args.p = double_and_add(WeilCurve, 2, WeilP)
  /\ ret = Some(One(WeilField))

(***************************************************************************)
(* C13: generator discovery.  For every odd prime order p up to            *)
(* MaxGenPrime, Field::generator() returns Some(g) with g in [2, p) whose  *)
(* powers g^1 .. g^(p-1) are pairwise distinct.                            *)
(***************************************************************************)
C13_GeneratorGenerates ==
  pc = "generator" =>
    /\ ret # None
    /\ ret[1].field = args.field
    /\ ret[1].value \in 2..(args.field - 1)
    /\ Cardinality({Pow(ret[1], i).value : i \in 1..(args.field - 1)}) = args.field - 1

\* the field of the pairing tests, where 2 is not a generator
C13_Witness ==
  /\ pc = "generator"
  /\ args.field = 631
  /\ ret = Some(FieldElement(631, 3))

(***************************************************************************)
(* C14: double-ended bit consumption.  For BitIter::from(v).at_big(),      *)
(* under every interleaving of next() and next_back(), exactly             *)
(* max(1, bitlen(v)) calls return Some; the j-th next() returns bit number *)
(* bitlen(v) - j, the j-th next_back() bit number j - 1, no bit position   *)
(* is returned twice, and every call made after the two ends have met      *)
(* returns None.                                                           *)
(***************************************************************************)
RECURSIVE BitLen(_)
BitLen(v) == IF v = 0 THEN 0 ELSE 1 + BitLen(v \div 2)

BitCount(v) == IF v = 0 THEN 1 ELSE BitLen(v)

BitAt(v, n) == (v \div (2 ^ n)) % 2 = 1

C14_DoubleEnded ==
  pc # "start" =>
    /\ loc.fronts + loc.backs <= BitCount(args.value)
    /\ ~loc.twice
    /\ ret = None => loc.fronts + loc.backs = BitCount(args.value)
    /\ (pc = "next" /\ ret # None) =>
         /\ loc.pos = BitCount(args.value) - loc.fronts
         /\ ret = Some(BitAt(args.value, loc.pos))
    /\ (pc = "next_back" /\ ret # None) =>
         /\ loc.pos = loc.backs - 1
         /\ ret = Some(BitAt(args.value, loc.pos))
    /\ loc.fronts + loc.backs = BitCount(args.value) =>
         /\ BitIterNext(loc.it).item = None
         /\ BitIterNextBack(loc.it).item = None

\* tests::both carried one call further: 11 read twice from either end, then None
C14_Witness ==
  /\ pc = "next_back"
  /\ args.value = 11
  /\ loc.fronts = 2
  /\ loc.backs = 2
  /\ ret = None

(***************************************************************************)
(* C15: evaluate_y(x) returns Some((y, -y)) with y*y = x^3 + A*x + B       *)
(* whenever some field element y satisfies the curve equation at x (the    *)
(* right-hand side 0 included), and None only when x is not the abscissa   *)
(* of a curve point.                                                       *)
(***************************************************************************)
CurveRhs == (args.x * args.x * args.x + args.a * args.x + args.b) % args.field

C15_EvaluateY ==
  (pc = "evaluate_y" /\ NonSingular) =>
    IF HasRoot(args.field, CurveRhs)
    THEN /\ ret # None
         /\ (ret[1][1].value * ret[1][1].value) % args.field = CurveRhs
         /\ ret[1][2] = Neg(ret[1][1])
    ELSE ret = None

(***************************************************************************)
(* C16: eval_chord_tangent(P, Q, S) returns None whenever at least one of  *)
(* P, Q or S is the identity, whatever the other two arguments are.        *)
(***************************************************************************)
C16_ChordNoneAtIdentity ==
  (/\ pc = "eval_chord_tangent"
   /\ NonSingular
   /\ is_infinity(args.p) \/ is_infinity(args.q) \/ is_infinity(args.s)) =>
    ret = None

(***************************************************************************)
(* C17: miller(P, Q, m) returns None for every non-identity point P of the *)
(* curve, every point Q and every m >= 1 that is not a multiple of the     *)
(* order of P (that is, m*P is not the identity).                          *)
(***************************************************************************)
C17_MillerNoneOffOrder ==
  (/\ pc = "miller"
   /\ NonSingular
   /\ ~is_infinity(args.p)
   /\ ~is_infinity(naive_mul(ArgCurve, args.m, args.p))) =>
    ret = None

(***************************************************************************)
(* C18: for all points P, Q, S of the curve and every m >= 1,              *)
(* eval_chord_tangent(P, Q, S) and miller(P, Q, m) return Some(value) or   *)
(* None; no input makes them abort with a division by zero.                *)
(***************************************************************************)
C18_NoAbort ==
  (pc \in {"eval_chord_tangent", "miller"} /\ NonSingular) =>
    ret = None \/ ~IsPanicFE(ret[1])

(***************************************************************************)
(* C19: the selection of the auxiliary point S in weilpairing is capped:   *)
(* when the candidates keep being rejected, the loop stops after at most   *)
(* `tries` re-samplings and the call aborts with the sampling-failure      *)
(* panic; candidates are never rejected and re-sampled beyond that.        *)
(***************************************************************************)
C19_RetryCapped ==
  pc = "loop" => loc.i <= tries

(***************************************************************************)
(* C20: mixing fields is fatal.  Every operation handed FieldElements (or  *)
(* curve parameters) of Fields of different order aborts instead of        *)
(* returning a value: FieldElement +, -, * and /, WeierstrassCurve::new    *)
(* and MontgomeryCurve::new.                                               *)
(***************************************************************************)
C20_MixedFieldsAbort ==
  /\ pc \in {"add", "sub", "mul", "div"} => IsPanicFE(ret)
  /\ pc \in {"WeierstrassCurve::new", "MontgomeryCurve::new"} => IsPanicFE(ret.a)

(***************************************************************************)
(* C21: the projective operations represent the same group element as the  *)
(* affine ones.  For points P1, P2 of the curve in projective form, the    *)
(* result of project_point_add(P1, P2) and of project_point_double(P1) has *)
(* z = 0 exactly when the affine point_add(P1, P2) / point_double(P1) is   *)
(* the identity, and otherwise (x/z, y/z) is the affine result; P1 = P2    *)
(* and an identity operand included.                                       *)
(***************************************************************************)
ToAffine(p) ==
  IF is_infinity(p) THEN infinity(p.x.field)
  ELSE Point(Div(p.x, p.z), Div(p.y, p.z), One(p.x.field))

SameElement(r, affine) ==
  /\ ~Panicked(r)
  /\ is_infinity(r) <=> is_infinity(affine)
  /\ ~is_infinity(affine) => ToAffine(r) = affine

AffineAdd == point_add(ArgCurve, ToAffine(args.p1), ToAffine(args.p2))

AffineDouble == point_double(ArgCurve, ToAffine(args.p1))

C21_ProjectiveMatchesAffine ==
  /\ (pc = "project_point_add" /\ NonSingular /\ ~Panicked(AffineAdd)) =>
       SameElement(ret, AffineAdd)
  /\ (pc = "project_point_double" /\ NonSingular /\ ~Panicked(AffineDouble)) =>
       SameElement(ret, AffineDouble)

(***************************************************************************)
(* C22: ladder scalar remapping.  For every k >= 0 and every point whose   *)
(* order is `order`, n the bit length of `order`, the scalar               *)
(* montgomery_ladder iterates over is 2^n + ((k - 2^n) mod order), the mod *)
(* taken in [0, order): it lies in [2^n, 2^n + order) and its bit n is the *)
(* leading 1.                                                              *)
(***************************************************************************)
C22_LadderScalar ==
  pc = "ladder_scalar" =>
    LET n_2 == 2 ^ BitLen(args.order)
    IN  /\ ret = n_2 + ((args.k - n_2) % args.order)
        /\ ret >= n_2
        /\ ret < n_2 + args.order
        /\ ret \div n_2 = 1

(***************************************************************************)
(* C23: Tonelli-Shanks terminates.  For every odd prime p with             *)
(* p - 1 = q * 2^s the scan for the non-residue z ends, every pass of the  *)
(* main loop that does not return replaces m by a strictly smaller i,      *)
(* m - 1 is never evaluated at m = 0 (the underflow abort), and the loop   *)
(* returns after at most s passes.                                         *)
(***************************************************************************)
C23_TonelliTerminates ==
  /\ [][(pc = "loop" /\ pc' = "loop") => loc'.m < loc.m]_vars
  /\ [](pc # "panicked")
  /\ [](loc.passes <= loc.ss)
  /\ [](pc = "returned" => ret = tonelli_shanks(TsX))
  /\ <>(pc = "returned")

\* p = 97 (p - 1 = 3 * 2^5), x = 35: the scan passes z = 2, 3, 4 and the loop returns
\* after two passes
C23_Witness ==
  /\ pc = "returned"
  /\ args.field = 97
  /\ loc.ss = 5
  /\ loc.passes >= 2
  /\ ret # None

(***************************************************************************)
(* C24: MontgomeryCurve::ladder(n, P) completes without aborting and       *)
(* returns the n-fold sum of P under the curve's own point_add, for every  *)
(* point P of the curve with y # 0 and every n >= 1; the starting          *)
(* accumulator (0, 0) behaves as the group identity under point_add and    *)
(* point_double.                                                           *)
(***************************************************************************)
MontNonSingular == (args.b * (args.a * args.a + args.field - 4)) % args.field # 0

C24_MontLadder ==
  (MontNonSingular /\ args.p.y.value # 0 /\ MontN.value >= 1) =>
    /\ pc = "ladder" =>
         /\ ~MPanicked(ret)
         /\ ret = mont_naive_mul(MontCurve, MontN.value, args.p)
    /\ pc = "point_add" => ret = args.p
    /\ pc = "point_double" => ret = MontZero

(***************************************************************************)
(* C25: in weilpairing, when the selection loop ends with an auxiliary     *)
(* point S that satisfies all the acceptance conditions, the call goes on  *)
(* to the four Miller evaluations: the abort "failed to generate proper s" *)
(* occurs only when no acceptable S was found, whatever the number of      *)
(* re-samplings before the accepted S.                                     *)
(***************************************************************************)
C25_AcceptedProceeds ==
  pc = "failed to generate proper s" =>
    weil_condition(WeilCurve, args.m, args.p, args.q, loc.s) # "break"

====
